---- MODULE Spec2Model ----
(***************************************************************************)
(* Model of src/src/App.tsx: the React component App with its state, the   *)
(* onDrop handler, the language selector and the asynchronous run          *)
(* processFiles / processPDF / processImage.  Every await of the run is a  *)
(* suspension point: one action resumes the run when the awaited promise   *)
(* resolves or rejects and executes the synchronous code up to the next    *)
(* await.  Text values are sequences of string chunks; concatenation of    *)
(* text is concatenation of chunk sequences.  The variables calls,         *)
(* engines, usedLangs, fileLog and outcomes record what the run called and *)
(* what the adapters answered; the program does not read them.             *)
(***************************************************************************)
EXTENDS Integers, Sequences, FiniteSets, TLC

\* ---------------------------------------------------------------- bounds
MaxFiles == 2
MaxPages == 2
\* object URLs created for previews over one behaviour
MaxPreviews == 3

\* ------------------------------------------------------------- constants
PdfType == "application/pdf"
LANGUAGES == {"eng", "chi_sim", "chi_tra"}
NoError == "null"
OcrErrorMsg == "An error occurred during OCR processing. Please try again with different files."
FileErrorMsg == "Error: Unable to process this file. It may be corrupted or in an unsupported format."
RecognizingText == "recognizing text"

\* ---------------------------------------------------- environment inputs
FileUniverse == { [name |-> "a.png", type |-> "image/png"],
                  [name |-> "b.pdf", type |-> PdfType] }
Statuses == {RecognizingText, "loading language traineddata"}
\* progress fractions m.progress, in tenths: 0, 0.5, 1
FracDen == 10
Fractions == {0, 5, 10}

RECURSIVE SeqsUpTo(_, _)
SeqsUpTo(S, n) ==
    IF n = 0 THEN { <<>> }
    ELSE LET shorter == SeqsUpTo(S, n - 1)
         IN shorter \cup { Append(q, f) : q \in shorter, f \in S }
\* lists of accepted files handed to onDrop: up to MaxFiles files
DropInputs == SeqsUpTo(FileUniverse, MaxFiles)

\* ------------------------------------------------------------------ state
VARIABLES
    \* React state of App
    files, isProcessing, results, progress, error, selectedLanguage,
    \* position and locals of the run (processFiles, processPDF)
    pc, runFiles, runLang, worker, idx, combinedResult, text, i, numPages,
    \* number of object URLs URL.createObjectURL has handed out for previews
    urlCount,
    \* record of the run
    calls, engines, usedLangs, fileLog, outcomes

vars == <<files, isProcessing, results, progress, error, selectedLanguage,
          pc, runFiles, runLang, worker, idx, combinedResult, text, i, numPages,
          urlCount, calls, engines, usedLangs, fileLog, outcomes>>

\* ---------------------------------------------------------- record of a run
\* calls of the run outside the file loop, "initError": a rejection of
\* loadLanguage or initialize, "created": createWorker resolved with an
\* engine instance, "terminated": worker.terminate() resolved
RunOps == {"createWorker", "loadLanguage", "initialize", "terminate",
           "setError", "setResults", "initError", "created", "terminated"}
NoCalls == [op \in RunOps |-> 0]
Bump(c, op) == [c EXCEPT ![op] = @ + 1]

\* One entry per adapter call made for a file ("call"), per resolution ("ok")
\* and per rejection ("err"), and one per synchronous call of
\* URL.createObjectURL / URL.revokeObjectURL in processPDF ("sync").
Ev(op, kind, w, p, t) == [op |-> op, kind |-> kind, worker |-> w, page |-> p, text |-> t]

RECURSIVE SelectOkTexts(_)
SelectOkTexts(fl) ==
    IF fl = <<>> THEN <<>>
    ELSE LET e == Head(fl)
         IN (IF e.op = "recognize" /\ e.kind = "ok" THEN << <<e.page, e.text>> >> ELSE <<>>)
            \o SelectOkTexts(Tail(fl))

RECURSIVE MaxPageOf(_)
MaxPageOf(fl) ==
    IF fl = <<>> THEN 0
    ELSE LET e == Head(fl)
             rest == MaxPageOf(Tail(fl))
         IN IF e.op # "getDocument" /\ e.page > rest THEN e.page ELSE rest

\* what the adapters answered for one file: did every call resolve, the page
\* count the rasterizer reported (0 for an image), the page of the rejected
\* call (0: none, or not a page call), the highest page any call was made
\* for, the object URLs processPDF created and did not revoke, the
\* recognized texts with their pages
OutcomeOf(fl) ==
    [ok |-> \A k \in 1..Len(fl) : fl[k].kind # "err",
     failedAt |-> IF \E k \in 1..Len(fl) : fl[k].kind = "err" /\ fl[k].op # "getDocument"
                  THEN fl[CHOOSE k \in 1..Len(fl) : fl[k].kind = "err"].page
                  ELSE 0,
     lastPage |-> MaxPageOf(fl),
     openURLs |-> Cardinality({ k \in 1..Len(fl) : fl[k].op = "createObjectURL" })
                  - Cardinality({ k \in 1..Len(fl) : fl[k].op = "revokeObjectURL" }),
     pages |-> IF \E k \in 1..Len(fl) : fl[k].op = "getDocument" /\ fl[k].kind = "ok"
               THEN fl[CHOOSE k \in 1..Len(fl) : fl[k].op = "getDocument" /\ fl[k].kind = "ok"].page
               ELSE 0,
     texts |-> SelectOkTexts(fl)]

\* -------------------------------------------------------- adapter answers
\* text the recognition engine returns for page p of a file (p = 0: the image)
OcrText(file, p) == file.name \o "#" \o ToString(p)

\* ------------------------------------------------------- text formatting
\* URL.createObjectURL(file): the n-th URL handed out, different from every
\* earlier one
PreviewOf(n) == "blob:" \o ToString(n)
WithPreview(file, n) == [name |-> file.name, type |-> file.type, preview |-> PreviewOf(n)]

PageBlock(n, pageText) == <<"Page ", ToString(n), ":\n", pageText, "\n\n">>
FileBlock(name, body) == <<"File: ", name, "\n\n">> \o body \o <<"\n\n">>
ErrorBlock(name) == <<"File: ", name, "\n\n", FileErrorMsg, "\n\n">>

\* parseInt(m.progress.toString()) * 100 for a fraction f / FracDen in [0,1]:
\* the decimal string of the fraction is read up to the decimal point.
ParseIntOfFraction(f) == f \div FracDen
LoggerProgress(f) == ParseIntOfFraction(f) * 100

\* ---------------------------------------------------------- initial state
Init ==
    /\ files = <<>>
    /\ isProcessing = FALSE
    /\ results = <<>>
    /\ progress = 0
    /\ error = NoError
    /\ selectedLanguage = "eng"
    /\ pc = "idle"
    /\ runFiles = <<>>
    /\ runLang = "eng"
    /\ worker = 0
    /\ idx = 0
    /\ combinedResult = <<>>
    /\ text = <<>>
    /\ i = 0
    /\ numPages = 0
    /\ urlCount = 0
    /\ calls = NoCalls
    /\ engines = {}
    /\ usedLangs = {}
    /\ fileLog = <<>>
    /\ outcomes = <<>>

\* ------------------------------------------------------------ UI handlers
\* onDrop: replaces the queue and clears the error; the Dropzone is rendered
\* without any condition on isProcessing.
onDrop ==
    \E acceptedFiles \in DropInputs :
        /\ urlCount + Len(acceptedFiles) <= MaxPreviews
        /\ files' = [k \in 1..Len(acceptedFiles) |->
                        WithPreview(acceptedFiles[k], urlCount + k)]
        /\ urlCount' = urlCount + Len(acceptedFiles)
        /\ error' = NoError
        /\ UNCHANGED <<isProcessing, results, progress, selectedLanguage,
                       pc, runFiles, runLang, worker, idx, combinedResult,
                       text, i, numPages, calls, engines, usedLangs, fileLog,
                       outcomes>>

\* onChange of the language <select>
setSelectedLanguage ==
    \E code \in LANGUAGES :
        /\ code # selectedLanguage
        /\ selectedLanguage' = code
        /\ UNCHANGED <<files, urlCount, isProcessing, results, progress, error,
                       pc, runFiles, runLang, worker, idx, combinedResult,
                       text, i, numPages, calls, engines, usedLangs, fileLog,
                       outcomes>>

\* a button that is not disabled while a run is in progress
ButtonNotDisabled == Len(files) > 0

\* The button is rendered when files.length > 0 and disabled by isProcessing.
ButtonEnabled == Len(files) > 0 /\ ~isProcessing

\* a start of a run that leaves the previous report on screen
processFilesKeepsResults ==
    /\ ButtonEnabled
    /\ isProcessing' = TRUE
    /\ progress' = 0
    /\ error' = NoError
    /\ runFiles' = files
    /\ runLang' = selectedLanguage
    /\ worker' = 0
    /\ idx' = 0
    /\ combinedResult' = <<>>
    /\ text' = <<>>
    /\ i' = 0
    /\ numPages' = 0
    /\ calls' = Bump(NoCalls, "createWorker")
    /\ engines' = {}
    /\ usedLangs' = {}
    /\ fileLog' = <<>>
    /\ outcomes' = <<>>
    /\ pc' = "createWorker"
    /\ UNCHANGED <<files, urlCount, selectedLanguage, results>>

\* processFiles up to its first await (createWorker).  The closure reads the
\* files and selectedLanguage of the render it was created in.
processFiles ==
    /\ ButtonEnabled
    /\ isProcessing' = TRUE
    /\ progress' = 0
    /\ results' = <<>>
    /\ error' = NoError
    /\ runFiles' = files
    /\ runLang' = selectedLanguage
    /\ worker' = 0
    /\ idx' = 0
    /\ combinedResult' = <<>>
    /\ text' = <<>>
    /\ i' = 0
    /\ numPages' = 0
    /\ calls' = Bump(NoCalls, "createWorker")
    /\ engines' = {}
    /\ usedLangs' = {}
    /\ fileLog' = <<>>
    /\ outcomes' = <<>>
    /\ pc' = "createWorker"
    /\ UNCHANGED <<files, urlCount, selectedLanguage>>

\* ------------------------------------------------ pieces of processFiles
\* a finally block that does not call worker.terminate()
FinallySkipsTerminate(c) == c

\* finally block, first statement: worker.terminate() is called
Finally(c) == Bump(c, "terminate")

\* the block put in front of the accumulator instead of behind it
PrependBlock(cr, block) == block \o cr

\* combinedResult += block
AppendBlock(cr, block) == cr \o block

\* a page appended without its label
AppendPageUnlabelled(tx, n, pageText) == tx \o << pageText, "\n\n" >>

\* text += `Page ${i}:\n${pageText.data.text}\n\n`
AppendPage(tx, n, pageText) == tx \o PageBlock(n, pageText)

\* a page loop that advances by two
SkipPage(n) == n + 2

\* i++ of the page loop
NextPage(n) == n + 1

\* a new engine instance for every file
FreshEnginePerFile(k) == k

\* the worker handed to processPDF / processImage for the file at position k
EngineFor(k) == worker

\* an outer catch that also publishes its message as the report
AbortPublishes(c) ==
    /\ error' = OcrErrorMsg
    /\ results' = << OcrErrorMsg >>
    /\ calls' = Bump(Bump(Bump(c, "setError"), "setResults"), "terminate")
    /\ pc' = "terminate"
    /\ UNCHANGED <<files, urlCount, isProcessing, progress, selectedLanguage,
                   runFiles, runLang, worker, idx, combinedResult, text, i,
                   numPages, engines, usedLangs, fileLog, outcomes>>

\* outer catch followed by entry into finally; c: the calls so far
Abort(c) ==
    /\ error' = OcrErrorMsg
    /\ calls' = Finally(Bump(c, "setError"))
    /\ pc' = "terminate"
    /\ UNCHANGED <<files, urlCount, isProcessing, results, progress, selectedLanguage,
                   runFiles, runLang, worker, idx, combinedResult, text, i,
                   numPages, engines, usedLangs, fileLog, outcomes>>

\* head of `for (const file of files)` at position k with accumulator cr,
\* fl being the calls made for the file before: dispatch on file.type, or
\* leave the loop, publish and enter finally
LoopAt(k, cr, fl) ==
    /\ idx' = k
    /\ combinedResult' = cr
    /\ text' = <<>>
    /\ i' = 0
    /\ numPages' = 0
    /\ outcomes' = IF k = 1 THEN <<>> ELSE Append(outcomes, OutcomeOf(fl))
    /\ IF k > Len(runFiles)
       THEN /\ results' = cr
            /\ calls' = Finally(Bump(calls, "setResults"))
            /\ fileLog' = <<>>
            /\ engines' = engines
            /\ pc' = "terminate"
       ELSE IF runFiles[k].type = PdfType
       THEN /\ results' = results
            /\ calls' = calls
            /\ fileLog' = << Ev("createObjectURL", "sync", 0, 0, ""),
                             Ev("getDocument", "call", 0, 0, "") >>
            /\ engines' = engines
            /\ pc' = "getDocument"
       ELSE /\ results' = results
            /\ calls' = calls
            /\ fileLog' = << Ev("recognize", "call", EngineFor(k), 0, "") >>
            /\ engines' = engines \cup {EngineFor(k)}
            /\ pc' = "recognizeImage"
    /\ UNCHANGED <<files, urlCount, isProcessing, progress, error, selectedLanguage,
                   runFiles, runLang, worker, usedLangs>>

\* the file's text was returned: append its block, go to the next file
FileDone(body, fl) ==
    LoopAt(idx + 1, AppendBlock(combinedResult, FileBlock(runFiles[idx].name, body)), fl)

\* a file catch that leaves the loop
FileCatchEndsLoop(fl) ==
    LoopAt(Len(runFiles) + 1, AppendBlock(combinedResult, ErrorBlock(runFiles[idx].name)), fl)

\* a file catch that reports the pages recognized so far
FileCatchKeepsPartial(fl) ==
    LoopAt(idx + 1, AppendBlock(combinedResult, FileBlock(runFiles[idx].name, text)), fl)

\* a file catch that hands the error on to the outer catch
FileCatchRethrows(fl) == Abort(calls)

\* catch (fileError): append the fixed message, go to the next file
FileCatch(fl) ==
    LoopAt(idx + 1, AppendBlock(combinedResult, ErrorBlock(runFiles[idx].name)), fl)

\* head of the page loop of processPDF at page j of n with accumulator tx
PageLoop(j, n, tx, fl) ==
    IF j <= n
    THEN /\ i' = j
         /\ numPages' = n
         /\ text' = tx
         /\ fileLog' = Append(fl, Ev("getPage", "call", 0, j, ""))
         /\ pc' = "getPage"
         /\ UNCHANGED <<files, urlCount, isProcessing, results, progress, error,
                        selectedLanguage, runFiles, runLang, worker, idx,
                        combinedResult, calls, engines, usedLangs, outcomes>>
    ELSE FileDone(tx, Append(fl, Ev("revokeObjectURL", "sync", 0, 0, "")))

\* ------------------------------------------- resumptions of processFiles
\* the selection read from the component state at the time of the call
LangArgLive == selectedLanguage

\* the argument of loadLanguage / initialize: the selectedLanguage of the
\* closure processFiles was created in
LangArg == runLang

createWorkerResolve ==
    /\ pc = "createWorker"
    /\ worker' = calls["createWorker"]
    /\ calls' = Bump(Bump(calls, "created"), "loadLanguage")
    /\ usedLangs' = usedLangs \cup {LangArg}
    /\ pc' = "loadLanguage"
    /\ UNCHANGED <<files, urlCount, isProcessing, results, progress, error,
                   selectedLanguage, runFiles, runLang, idx, combinedResult,
                   text, i, numPages, engines, fileLog, outcomes>>

\* createWorker is awaited outside the try statement
createWorkerReject ==
    /\ pc = "createWorker"
    /\ pc' = "rejected"
    /\ UNCHANGED <<files, urlCount, isProcessing, results, progress, error,
                   selectedLanguage, runFiles, runLang, worker, idx,
                   combinedResult, text, i, numPages, calls, engines, usedLangs,
                   fileLog, outcomes>>

loadLanguageResolve ==
    /\ pc = "loadLanguage"
    /\ calls' = Bump(calls, "initialize")
    /\ usedLangs' = usedLangs \cup {LangArg}
    /\ pc' = "initialize"
    /\ UNCHANGED <<files, urlCount, isProcessing, results, progress, error,
                   selectedLanguage, runFiles, runLang, worker, idx,
                   combinedResult, text, i, numPages, engines, fileLog,
                   outcomes>>

loadLanguageReject ==
    /\ pc = "loadLanguage"
    /\ Abort(Bump(calls, "initError"))

initializeResolve ==
    /\ pc = "initialize"
    /\ LoopAt(1, <<>>, <<>>)

initializeReject ==
    /\ pc = "initialize"
    /\ Abort(Bump(calls, "initError"))

\* processImage
recognizeImageResolve ==
    /\ pc = "recognizeImage"
    /\ LET t == OcrText(runFiles[idx], 0)
       IN FileDone(<<t>>, Append(fileLog, Ev("recognize", "ok", worker, 0, t)))

recognizeImageReject ==
    /\ pc = "recognizeImage"
    /\ FileCatch(Append(fileLog, Ev("recognize", "err", worker, 0, "")))

\* processPDF
getDocumentResolve ==
    /\ pc = "getDocument"
    /\ \E n \in 0..MaxPages :
        PageLoop(1, n, <<>>, Append(fileLog, Ev("getDocument", "ok", 0, n, "")))

getDocumentReject ==
    /\ pc = "getDocument"
    /\ FileCatch(Append(fileLog, Ev("getDocument", "err", 0, 0, "")))

getPageResolve ==
    /\ pc = "getPage"
    /\ fileLog' = fileLog \o << Ev("getPage", "ok", 0, i, ""),
                                Ev("render", "call", 0, i, "") >>
    /\ pc' = "render"
    /\ UNCHANGED <<files, urlCount, isProcessing, results, progress, error,
                   selectedLanguage, runFiles, runLang, worker, idx,
                   combinedResult, text, i, numPages, calls, engines, usedLangs, outcomes>>

getPageReject ==
    /\ pc = "getPage"
    /\ FileCatch(Append(fileLog, Ev("getPage", "err", 0, i, "")))

renderResolve ==
    /\ pc = "render"
    /\ fileLog' = fileLog \o << Ev("render", "ok", 0, i, ""),
                                Ev("recognize", "call", EngineFor(idx), i, "") >>
    /\ engines' = engines \cup {EngineFor(idx)}
    /\ pc' = "recognizePage"
    /\ UNCHANGED <<files, urlCount, isProcessing, results, progress, error,
                   selectedLanguage, runFiles, runLang, worker, idx,
                   combinedResult, text, i, numPages, calls, usedLangs,
                   outcomes>>

renderReject ==
    /\ pc = "render"
    /\ FileCatch(Append(fileLog, Ev("render", "err", 0, i, "")))

recognizePageResolve ==
    /\ pc = "recognizePage"
    /\ LET t == OcrText(runFiles[idx], i)
       IN PageLoop(NextPage(i), numPages, AppendPage(text, i, t),
                   Append(fileLog, Ev("recognize", "ok", worker, i, t)))

recognizePageReject ==
    /\ pc = "recognizePage"
    /\ FileCatch(Append(fileLog, Ev("recognize", "err", worker, i, "")))

\* logger callback given to createWorker, called with m = {status, progress}
LoggerEvent(status, f) ==
    /\ pc \in {"loadLanguage", "initialize", "recognizeImage", "recognizePage"}
    /\ status = RecognizingText => pc \in {"recognizeImage", "recognizePage"}
    /\ progress' = IF status = RecognizingText THEN LoggerProgress(f) ELSE progress
    /\ UNCHANGED <<files, urlCount, isProcessing, results, error, selectedLanguage,
                   pc, runFiles, runLang, worker, idx, combinedResult, text,
                   i, numPages, calls, engines, usedLangs, fileLog, outcomes>>

logger == \E status \in Statuses, f \in Fractions : LoggerEvent(status, f)

\* rest of the finally block once worker.terminate() resolved
terminateResolve ==
    /\ pc = "terminate"
    /\ isProcessing' = FALSE
    /\ progress' = 0
    /\ calls' = Bump(calls, "terminated")
    /\ pc' = "idle"
    /\ UNCHANGED <<files, urlCount, results, error, selectedLanguage, runFiles, runLang,
                   worker, idx, combinedResult, text, i, numPages,
                   engines, usedLangs, fileLog, outcomes>>

\* worker.terminate() rejected: the rest of the finally block is skipped
terminateReject ==
    /\ pc = "terminate"
    /\ pc' = "rejected"
    /\ UNCHANGED <<files, urlCount, isProcessing, results, progress, error,
                   selectedLanguage, runFiles, runLang, worker, idx,
                   combinedResult, text, i, numPages, calls, engines, usedLangs,
                   fileLog, outcomes>>

RunStep ==
    \/ createWorkerResolve \/ createWorkerReject
    \/ loadLanguageResolve \/ loadLanguageReject
    \/ initializeResolve \/ initializeReject
    \/ recognizeImageResolve \/ recognizeImageReject
    \/ getDocumentResolve \/ getDocumentReject
    \/ getPageResolve \/ getPageReject
    \/ renderResolve \/ renderReject
    \/ recognizePageResolve \/ recognizePageReject
    \/ terminateResolve \/ terminateReject

Next ==
    \/ onDrop
    \/ setSelectedLanguage
    \/ processFiles
    \/ RunStep
    \/ logger

Spec == Init /\ [][Next]_vars

\* ------------------------------------------------------------- sanity
TypeOK ==
    /\ isProcessing \in BOOLEAN
    /\ progress \in {0, 100}
    /\ error \in {NoError, OcrErrorMsg}
    /\ selectedLanguage \in LANGUAGES
    /\ pc \in {"idle", "rejected", "createWorker", "loadLanguage", "initialize",
               "recognizeImage", "getDocument", "getPage", "render",
               "recognizePage", "terminate"}
    /\ (~isProcessing) => pc = "idle"

\* ------------------------------------------------- reading a report back
\* A report is read as file blocks: a block starts at a "File: " chunk, the
\* chunk after it is the file's name.
FileStarts(r) == { k \in 1..Len(r) : r[k] = "File: " }
NumBlocks(r) == Cardinality(FileStarts(r))
NthStart(r, n) ==
    CHOOSE k \in FileStarts(r) : Cardinality({ j \in FileStarts(r) : j < k }) = n - 1
BlockEnd(r, n) == IF n = NumBlocks(r) THEN Len(r) ELSE NthStart(r, n + 1) - 1
Block(r, n) == SubSeq(r, NthStart(r, n), BlockEnd(r, n))
BlockName(r, n) == r[NthStart(r, n) + 1]
WellFormed(r) == r # <<>> => 1 \in FileStarts(r)

\* ------------------------------------------------------ phases of a run
RunStarted == calls["createWorker"] = 1
RunEnded == RunStarted /\ pc \in {"idle", "rejected"}
EngineCreated == worker # 0
ReportPublished == calls["setResults"] = 1
InitFailed == calls["initError"] = 1
\* a step in which a recognize call is issued
RecognizeIssued ==
    /\ fileLog' # fileLog
    /\ fileLog' # <<>>
    /\ LET e == fileLog'[Len(fileLog')] IN e.op = "recognize" /\ e.kind = "call"

\* ------------------------------------------------------------------ C1
\* C1: in every run in which an engine instance was created, worker.terminate
\* is called exactly once by the time the run has ended, whether all files
\* succeeded, some failed or language load / initialize failed; it is never
\* called twice, and no recognize call is issued once it has been called.
C1_ReleasedOnce ==
    /\ (RunEnded /\ EngineCreated) => calls["terminate"] = 1
    /\ calls["terminate"] <= 1
    /\ calls["terminate"] = 1 => pc \in {"terminate", "idle", "rejected"}
    /\ pc \in {"recognizeImage", "recognizePage"} => calls["terminate"] = 0

C1_ReleaseAfterLastRecognize ==
    [][calls["terminate"] >= 1 => ~RecognizeIssued]_vars

C1_Release == []C1_ReleasedOnce /\ C1_ReleaseAfterLastRecognize

\* a run of two files, the first failed and the second recognized, has ended
C1_Witness ==
    /\ RunEnded /\ EngineCreated /\ calls["terminate"] = 1
    /\ Len(outcomes) = 2 /\ ~outcomes[1].ok /\ outcomes[2].ok

\* ------------------------------------------------------------------ C3
\* C3: the report published by a completed run has exactly one file block
\* per file of the batch the run processed, and block k carries the name of
\* the k-th queued file, whichever files succeeded or failed.
C3_ReportOrder ==
    ReportPublished =>
        /\ WellFormed(results)
        /\ NumBlocks(results) = Len(runFiles)
        /\ \A k \in 1..Len(runFiles) : BlockName(results, k) = runFiles[k].name

\* a published report of two files of which exactly one failed
C3_Witness ==
    /\ ReportPublished /\ Len(runFiles) = 2 /\ NumBlocks(results) = 2
    /\ outcomes[1].ok /\ ~outcomes[2].ok

\* ------------------------------------------------------------------ C2
Range(q) == { q[k] : k \in 1..Len(q) }

RECURSIVE PagesBody(_)
PagesBody(texts) ==
    IF texts = <<>> THEN <<>>
    ELSE PageBlock(Head(texts)[1], Head(texts)[2]) \o PagesBody(Tail(texts))

\* the block of a file as its own adapter answers alone determine it
OwnBlock(file, oc) ==
    IF ~oc.ok THEN ErrorBlock(file.name)
    ELSE IF file.type = PdfType THEN FileBlock(file.name, PagesBody(oc.texts))
    ELSE FileBlock(file.name, << oc.texts[1][2] >>)

InFileLoop == pc \in {"recognizeImage", "getDocument", "getPage", "render", "recognizePage"}

\* C2: failure isolation.  If processing the file at position f raised an
\* error, the run goes on with every later file (a failure never ends the
\* loop: while a file is in work every earlier file has its outcome, and a run
\* that left the loop has an outcome for every file), the block of file f is
\* the fixed failure message, and the block of every other file is the one
\* its own adapter answers determine, as it would be had file f succeeded.
C2_FailureIsolation ==
    /\ InFileLoop => (idx <= Len(runFiles) /\ Len(outcomes) = idx - 1)
    /\ (calls["terminate"] = 1 /\ ~InitFailed) =>
            (ReportPublished /\ Len(outcomes) = Len(runFiles) /\ results = combinedResult)
    /\ NumBlocks(combinedResult) = Len(outcomes)
    /\ \A f \in 1..Len(outcomes) :
        ~outcomes[f].ok =>
            /\ Block(combinedResult, f) = ErrorBlock(runFiles[f].name)
            /\ \A j \in 1..Len(outcomes) :
                j # f => Block(combinedResult, j) = OwnBlock(runFiles[j], outcomes[j])

\* a published report whose first file failed and whose second was recognized
C2_Witness ==
    /\ ReportPublished /\ Len(outcomes) = 2
    /\ ~outcomes[1].ok /\ outcomes[2].ok /\ outcomes[2].texts # <<>>
    /\ Block(results, 1) = ErrorBlock(runFiles[1].name)

\* ------------------------------------------------------------------ C4
\* C4: when loadLanguage or initialize rejects, the run makes no rasterize or
\* recognize call and records no file result, the report stays empty, the
\* run-level error is set exactly once, the engine is released once, the run
\* itself never changes the queue, and after the release the button is
\* enabled again for the same queue.
C4_AbortState ==
    InitFailed =>
        /\ fileLog = <<>> /\ outcomes = <<>> /\ engines = {} /\ idx = 0
        /\ results = <<>> /\ combinedResult = <<>>
        /\ calls["setResults"] = 0
        /\ calls["setError"] = 1
        /\ calls["terminate"] = 1
        /\ pc = "idle" => ~isProcessing

C4_AbortStep ==
    [][ /\ (InitFailed' /\ ~InitFailed) => error' = OcrErrorMsg
        /\ (InitFailed' /\ files' # files) => onDrop ]_vars

C4_FatalInit == []C4_AbortState /\ C4_AbortStep

\* initialize rejected, the engine was released and the run has returned
C4_Witness ==
    /\ InitFailed /\ calls["initialize"] = 1 /\ pc = "idle"
    /\ error = OcrErrorMsg /\ files = runFiles /\ Len(files) = 2

\* ------------------------------------------------------------------ C5
\* C5: every run that has ended has exactly one of two outcomes: a report
\* (results non-empty, error unset) or a run-level error (error set, results
\* empty), whichever engine call failed.
C5_ExactlyOneOutcome ==
    RunEnded =>
        ((results # <<>> /\ error = NoError) # (error # NoError /\ results = <<>>))

\* ------------------------------------------------------------------ C6
\* C6: on every exit path of a run, those where createWorker, loadLanguage,
\* initialize or terminate fails included, isProcessing is false and the
\* progress is 0 once the run has ended.
C6_FlagsCleared == RunEnded => (isProcessing = FALSE /\ progress = 0)

\* ------------------------------------------------------------------ C7
\* C7: while a run is in progress the queue is the one the run started with.
C7_QueueFixedDuringRun == isProcessing => files = runFiles

\* ------------------------------------------------------------------ C8
RECURSIVE CallsOf(_)
CallsOf(fl) ==
    IF fl = <<>> THEN <<>>
    ELSE (IF Head(fl).kind = "call"
          THEN << <<Head(fl).op, Head(fl).page>> >> ELSE <<>>) \o CallsOf(Tail(fl))

RECURSIVE CompletePages(_)
CompletePages(n) ==
    IF n = 0 THEN <<>>
    ELSE CompletePages(n - 1)
         \o << <<"getPage", n>>, <<"render", n>>, <<"recognize", n>> >>

CurrentPage(n, at) ==
    IF at = "getPage" THEN << <<"getPage", n>> >>
    ELSE IF at = "render" THEN << <<"getPage", n>>, <<"render", n>> >>
    ELSE << <<"getPage", n>>, <<"render", n>>, <<"recognize", n>> >>

RECURSIVE PageLabels(_)
PageLabels(b) ==
    IF Len(b) < 2 THEN <<>>
    ELSE (IF Head(b) = "Page " THEN << b[2] >> ELSE <<>>) \o PageLabels(Tail(b))

PagesOf(texts) == [k \in 1..Len(texts) |-> texts[k][1]]
Ascending(n) == [k \in 1..n |-> k]
AscendingLabels(n) == [k \in 1..n |-> ToString(k)]

\* C8: processPDF gets, renders and recognizes the pages 1, 2, ..., n in this
\* order, each once, and the text of a document of n pages that was processed
\* successfully consists of n page blocks labelled 1 to n in ascending order.
C8_PagesInOrder ==
    /\ pc \in {"getPage", "render", "recognizePage"} =>
        /\ 1 <= i /\ i <= numPages
        /\ CallsOf(fileLog) =
              << <<"getDocument", 0>> >> \o CompletePages(i - 1) \o CurrentPage(i, pc)
    /\ \A k \in 1..Len(outcomes) :
        (runFiles[k].type = PdfType /\ outcomes[k].ok) =>
            LET n == outcomes[k].pages
            IN /\ outcomes[k].lastPage = n
               /\ PagesOf(outcomes[k].texts) = Ascending(n)
               /\ PageLabels(Block(combinedResult, k)) = AscendingLabels(n)
               /\ ReportPublished => PageLabels(Block(results, k)) = AscendingLabels(n)

\* a document of at least two pages was processed successfully
C8_Witness ==
    \E k \in 1..Len(outcomes) :
        /\ runFiles[k].type = PdfType /\ outcomes[k].ok /\ outcomes[k].pages >= 2
        /\ Len(PageLabels(Block(combinedResult, k))) >= 2

\* ------------------------------------------------------------------ C9
\* C9: if getting, rendering or recognizing page p of a document fails, the
\* document's block is the fixed failure message alone, without any text of
\* the pages 1..p-1 recognized before, and no call is made for a page after p.
C9_WholeDocumentFails ==
    \A k \in 1..Len(outcomes) :
        LET oc == outcomes[k]
        IN (runFiles[k].type = PdfType /\ oc.failedAt >= 1) =>
            /\ ~oc.ok
            /\ PagesOf(oc.texts) = Ascending(oc.failedAt - 1)
            /\ oc.lastPage = oc.failedAt
            /\ Block(combinedResult, k) = ErrorBlock(runFiles[k].name)
            /\ \A j \in 1..Len(oc.texts) : oc.texts[j][2] \notin Range(Block(combinedResult, k))
            /\ ReportPublished => Block(results, k) = ErrorBlock(runFiles[k].name)

\* a document failed at its second page, after its first page was recognized
C9_Witness ==
    \E k \in 1..Len(outcomes) :
        /\ runFiles[k].type = PdfType /\ outcomes[k].failedAt = 2
        /\ Len(outcomes[k].texts) = 1
        /\ Block(combinedResult, k) = ErrorBlock(runFiles[k].name)

\* ------------------------------------------------------------------ C10
RecognizeWorkers(fl) == { fl[k].worker : k \in { j \in 1..Len(fl) : fl[j].op = "recognize" } }

\* C10: within one run createWorker, loadLanguage and initialize are each
\* called once, all before the first file is processed, and every recognize
\* call of every file and page is served by that one instance, also after a
\* file failed.
C10_OneEngine ==
    /\ calls["createWorker"] <= 1
    /\ calls["loadLanguage"] <= 1
    /\ calls["initialize"] <= 1
    /\ (idx >= 1 \/ fileLog # <<>> \/ outcomes # <<>>) =>
        /\ calls["createWorker"] = 1
        /\ calls["loadLanguage"] = 1
        /\ calls["initialize"] = 1
        /\ ~InitFailed
        /\ worker = 1
    /\ engines \subseteq {worker}
    /\ RecognizeWorkers(fileLog) \subseteq {worker}

\* the first file failed and a recognize call of the second file is in flight
C10_Witness ==
    /\ Len(outcomes) = 1 /\ ~outcomes[1].ok
    /\ pc \in {"recognizeImage", "recognizePage"}
    /\ engines = {worker} /\ worker = 1

\* ------------------------------------------------------------------ C11
\* engine instances created and not yet released
LiveEngines == calls["created"] - calls["terminated"]
\* adapter calls of the current file that were issued and have not returned
Pending(fl) ==
    Cardinality({ k \in 1..Len(fl) : fl[k].kind = "call" })
    - Cardinality({ k \in 1..Len(fl) : fl[k].kind \in {"ok", "err"} })

C11_OneAtATime ==
    /\ LiveEngines \in {0, 1}
    /\ Pending(fileLog) \in {0, 1}
    /\ Pending(fileLog) = 1 <=> InFileLoop
    /\ Pending(fileLog) = 1 => (LiveEngines = 1 /\ isProcessing)
    /\ ~isProcessing => (pc = "idle" /\ LiveEngines = 0)

C11_StartOnlyWhenReleased ==
    [][processFiles => (pc = "idle" /\ LiveEngines = 0 /\ ~isProcessing)]_vars

\* C11: at every moment at most one engine instance is live and at most one
\* rasterize or recognize call is in flight, for one file and one page, and a
\* run starts only when no run is suspended, the engine of the run before is
\* released and the processing flag is cleared.
C11_Sequential == []C11_OneAtATime /\ C11_StartOnlyWhenReleased

\* a run of two files has released its engine and the button is enabled again
C11_Witness ==
    /\ RunEnded /\ calls["terminated"] = 1 /\ LiveEngines = 0
    /\ Len(outcomes) = 2 /\ ButtonEnabled

\* ------------------------------------------------------------------ C12
\* C12: a progress event with status 'recognizing text' and fraction f sets
\* the displayed progress to 100 * f, for every f in [0,1]; an event with
\* another status leaves it unchanged.
C12_ProgressScaled ==
    [][ \A status \in Statuses, f \in Fractions :
            LoggerEvent(status, f) =>
                IF status = RecognizingText
                THEN progress' * FracDen = 100 * f
                ELSE progress' = progress ]_vars

\* ------------------------------------------------------------------ C13
\* the report as the claim writes it, from the queue and the adapter answers
RECURSIVE C13_PageBlocks(_, _)
C13_PageBlocks(texts, n) ==
    IF n > Len(texts) THEN <<>>
    ELSE << "Page ", ToString(n), ":\n", texts[n][2], "\n\n" >>
         \o C13_PageBlocks(texts, n + 1)

C13_Body(file, oc) ==
    IF ~oc.ok
    THEN << "Error: Unable to process this file. It may be corrupted or in an unsupported format." >>
    ELSE IF file.type = "application/pdf" THEN C13_PageBlocks(oc.texts, 1)
    ELSE << oc.texts[1][2] >>

RECURSIVE C13_Report(_, _)
C13_Report(fs, ocs) ==
    IF fs = <<>> THEN <<>>
    ELSE << "File: ", Head(fs).name, "\n\n" >> \o C13_Body(Head(fs), Head(ocs)) \o << "\n\n" >>
         \o C13_Report(Tail(fs), Tail(ocs))

\* C13: the report of a completed run is the concatenation, in queue order,
\* of "File: {name}\n\n{body}\n\n" blocks, body being the recognized text of a
\* successful image, the "Page {n}:\n{text}\n\n" blocks of all pages of a
\* successful PDF, and the fixed message of a failed file.
C13_ReportFormat ==
    ReportPublished =>
        /\ Len(outcomes) = Len(runFiles)
        /\ \A k \in 1..Len(outcomes) :
            (runFiles[k].type = PdfType /\ outcomes[k].ok) =>
                Len(outcomes[k].texts) = outcomes[k].pages
        /\ results = C13_Report(runFiles, outcomes)

\* a published report of two files: a recognized two-page PDF and a failed file
C13_Witness ==
    /\ ReportPublished /\ Len(runFiles) = 2
    /\ \E k \in 1..2 : runFiles[k].type = PdfType /\ outcomes[k].ok /\ outcomes[k].pages = 2
    /\ \E k \in 1..2 : ~outcomes[k].ok

\* ------------------------------------------------------------------ C14
\* C14: the run-level error is set only when loadLanguage or initialize
\* rejected, never by an error raised while a file is processed; once the
\* first file has started, the error stays unset and a run that ends has
\* published its report.
C14_AbortOnlyFromInit ==
    /\ calls["setError"] <= 1
    /\ calls["setError"] = 1 => (InitFailed /\ idx = 0 /\ outcomes = <<>>)
    /\ error # NoError => InitFailed
    /\ idx >= 1 => (calls["setError"] = 0 /\ error = NoError /\ ~InitFailed)
    /\ (RunEnded /\ idx >= 1) =>
        (ReportPublished /\ results = combinedResult /\ results # <<>>)

\* a run in which a file failed has ended with its report and no error
C14_Witness ==
    /\ RunEnded /\ Len(outcomes) = 2 /\ ~outcomes[1].ok /\ ~outcomes[2].ok
    /\ ReportPublished /\ error = NoError

\* ------------------------------------------------------------------ C15
C15_LanguageOfRun ==
    /\ usedLangs \subseteq {runLang}
    /\ calls["loadLanguage"] = 1 => usedLangs = {runLang}
C15_CapturedAtStart == [][processFiles => runLang' = selectedLanguage]_vars
C15_ChangeHasNoEffect ==
    [][selectedLanguage' # selectedLanguage =>
            (runLang' = runLang /\ usedLangs' = usedLangs)]_vars

\* C15: the language the engine is loaded and initialized with is the one
\* selected at the moment the run started; changing the selection while the
\* run is in progress changes neither it nor the language already used.
C15_LanguageFixedAtStart ==
    []C15_LanguageOfRun /\ C15_CapturedAtStart /\ C15_ChangeHasNoEffect

\* the selection was changed before initialize was called, and the engine of
\* the run was still given the language of the start
C15_Witness ==
    /\ calls["initialize"] = 1 /\ isProcessing
    /\ selectedLanguage # runLang
    /\ usedLangs = {runLang}
    /\ idx >= 1

\* ------------------------------------------------------------------ C16
\* C16: every object URL created by processPDF has been revoked when
\* processPDF has exited, whether it returned or threw.
C16_URLsRevoked ==
    /\ \A k \in 1..Len(outcomes) : outcomes[k].openURLs = 0
    /\ ~InFileLoop => OutcomeOf(fileLog).openURLs = 0

\* ------------------------------------------------------------------ C17
\* the blocks of report r name the files of queue q, one each, in order
BlocksName(r, q) ==
    /\ NumBlocks(r) = Len(q)
    /\ \A k \in 1..Len(q) : BlockName(r, k) = q[k].name

C17_ReportOfStartQueue == ReportPublished => BlocksName(results, runFiles)
C17_QueueAtEnd ==
    [][(pc = "terminate" /\ pc' # "terminate" /\ ReportPublished) =>
            (files' = runFiles /\ BlocksName(results', files'))]_vars

\* C17: the report has a block for exactly the files that were queued when
\* the run started, and at the moment the run ends these are the files of the
\* queue then displayed, whatever drops happened in between.
C17_ReportMatchesQueue == []C17_ReportOfStartQueue /\ C17_QueueAtEnd

\* ------------------------------------------------------------------ C18
C18_EmptyWhileProcessing ==
    /\ calls["setResults"] <= 1
    /\ (RunStarted /\ ~ReportPublished) => results = <<>>
    /\ (InFileLoop \/ pc \in {"createWorker", "loadLanguage", "initialize"}) =>
        (isProcessing /\ results = <<>>)
    /\ ReportPublished =>
        (results = combinedResult /\ Len(outcomes) = Len(runFiles) /\ results # <<>>)
C18_StartClears ==
    [][processFiles => (results' = <<>> /\ error' = NoError)]_vars
C18_ChangesOnce ==
    [][results' # results =>
        \/ processFiles
        \/ /\ InFileLoop /\ pc' = "terminate"
           /\ idx = Len(runFiles) /\ Len(outcomes') = Len(runFiles)
           /\ results = <<>> /\ results' = combinedResult'
           /\ calls["setResults"] = 0 /\ calls'["setResults"] = 1]_vars

\* C18: starting a run clears the previous results and error; results stays
\* empty while files are processed and changes exactly once per successful
\* run, to the complete report, after the last file.
C18_ResultsLifecycle ==
    []C18_EmptyWhileProcessing /\ C18_StartClears /\ C18_ChangesOnce

\* a run is at its second file: the block of the first file is accumulated
\* in combinedResult, and results is still empty
C18_Witness ==
    /\ isProcessing /\ idx = 2 /\ Len(outcomes) = 1 /\ results = <<>>
    /\ combinedResult # <<>>
====
